---------------------------- MODULE Spec2Model ----------------------------
(***************************************************************************)
(* A model of the contribution-history tools:                              *)
(*   - merge_loc_histories.py  (the standalone merge utility), and         *)
(*   - repo_scan.py            (clone, analyse, aggregate, export).        *)
(* Spec is the run of repo_scan.main, SpecFair the same run under the      *)
(* scheduling of the cloning stage; SpecMerge is the run of                *)
(* merge_loc_histories.main; SpecMatch builds a CommitIdentityMatcher and  *)
(* asks it about one commit.                                               *)
(***************************************************************************)
EXTENDS Integers, Sequences, FiniteSets, TLC

VARIABLES
    \* ---- repo_scan.main -------------------------------------------------
    pc,              \* position of main / process_all_repos
    exc,             \* the exception in flight, "none" when there is none
    repos,           \* number of candidates returned by get_contributed_repos
    task,            \* per candidate: state / return value of its clone task
    semaphore,       \* free permits of asyncio.Semaphore(5)
    res,             \* gather: indices of the finished tasks, completion order
    results,         \* the list gather returned: <<path, success>> per slot
    repo_paths,      \* paths of the successful clones
    job,             \* per submitted future: state and return value
    collected,       \* futures already yielded by as_completed
    repo_stats_list, \* non-empty histories, in collection order
    aggregated,      \* value returned by process_all_repos
    errlog,          \* error messages logged so far
    exported,        \* loc_history.json in the output directory
    cleanups,        \* number of calls of tracker.cleanup()
    \* ---- merge_loc_histories.main --------------------------------------
    mpc,             \* position of main / merge_loc_histories
    nfiles,          \* len(args.files)
    files,           \* data loaded from the files read so far
    merged,          \* the accumulator of merge_loc_histories
    outfile,         \* the file named by --output
    \* ---- CommitIdentityMatcher ------------------------------------------
    mstep,           \* "start", "built" (patterns compiled), "checked"
    profile,         \* the github_user the matcher is built from
    patterns,        \* self.patterns
    commit,          \* author and email of the commit that was checked
    verdict          \* the value is_users_commit returned

scanVars  == <<pc, exc, repos, task, semaphore, res, results, repo_paths, job,
               collected, repo_stats_list, aggregated, errlog, exported, cleanups>>
mergeVars == <<mpc, nfiles, files, merged, outfile>>
matchVars == <<mstep, profile, patterns, commit, verdict>>
vars      == <<pc, exc, repos, task, semaphore, res, results, repo_paths, job,
               collected, repo_stats_list, aggregated, errlog, exported, cleanups,
               mpc, nfiles, files, merged, outfile,
               mstep, profile, patterns, commit, verdict>>

---------------------------------------------------------------------------
(* Bounds of the model.                                                    *)

MaxFiles == 3

MaxRepos == 6

MaxCloned == 2

---------------------------------------------------------------------------
(* Contribution histories: month -> extension -> MetricSet.                *)

\* The six counters, in the order the merge loop adds them.
Fields == <<"lines", "files", "additions", "deletions", "modifications", "repos">>

FieldSet == {Fields[k] : k \in 1..Len(Fields)}

\* The empty dict {}.
EmptyMap == [x \in {} |-> 0]

\* No matcher was built, no commit was checked.
NoProfile == [login |-> <<>>, name |-> <<>>, email |-> <<>>]

NoCommit == [author |-> <<>>, email |-> <<>>]

Months == {"2024-01", "2024-02"}

Exts == {"py", "js", "total"}

Values == {1, 2}

\* A MetricSet with all six fields, the fields pairwise different.
Full(v) ==
    [lines |-> 10 * v, files |-> v, additions |-> 8 * v,
     deletions |-> 2 * v, modifications |-> 3 * v, repos |-> v + 1]

\* The MetricSet ms without the field f.
Drop(ms, f) == [g \in (DOMAIN ms) \ {f} |-> ms[g]]

WellFormedSets == {Full(v) : v \in Values}

\* MetricSets that lack the first resp. the last field of the merge loop.
IllFormedSets == {Drop(Full(1), f) : f \in {"lines", "repos"}}

Single(m, e, ms) == [mm \in {m} |-> [ee \in {e} |-> ms]]

EmptyMonth(m) == [mm \in {m} |-> EmptyMap]

\* One month whose extensions are those of parts, plus the month's "total"
\* entry holding tot.
WithTotal(m, parts, tot) ==
    [mm \in {m} |-> [e \in (DOMAIN parts) \cup {"total"} |->
                        IF e = "total" THEN tot ELSE parts[e]]]

\* Histories as the scan writes them: every month has a "total" entry that
\* is the sum of the month's extensions.
ScanDocs ==
    {WithTotal("2024-01", [py |-> Full(1)], Full(1)),
     WithTotal("2024-01", [js |-> Full(2)], Full(2)),
     WithTotal("2024-01", [py |-> Full(1), js |-> Full(2)],
               [f \in FieldSet |-> Full(1)[f] + Full(2)[f]])}

\* The documents a history file may hold.
Docs ==
    {EmptyMap}
      \cup {EmptyMonth(m) : m \in Months}
      \cup {Single(m, e, ms) : m \in Months, e \in {"py", "total"},
                               ms \in WellFormedSets \cup IllFormedSets}
      \cup ScanDocs

\* Every MetricSet of history h has all six fields.
WellFormed(h) ==
    \A m \in DOMAIN h : \A e \in DOMAIN h[m] : FieldSet \subseteq DOMAIN h[m][e]

---------------------------------------------------------------------------
(* json.dump / json.load of a history: the document is the set of its      *)
(* object paths with the number at each leaf.                              *)

JsonDump(h) ==
    [months |-> DOMAIN h,
     exts   |-> {t \in Months \X Exts : t[1] \in DOMAIN h /\ t[2] \in DOMAIN h[t[1]]},
     leaves |-> {<<m, e, f, h[m][e][f]>> : <<m, e, f>> \in
                   {t \in Months \X Exts \X FieldSet :
                      /\ t[1] \in DOMAIN h
                      /\ t[2] \in DOMAIN h[t[1]]
                      /\ t[3] \in DOMAIN h[t[1]][t[2]]}}]

JsonLoad(d) ==
    [m \in d.months |->
       [e \in {e \in Exts : <<m, e>> \in d.exts} |->
          [f \in {f \in FieldSet : \E l \in d.leaves :
                                      l[1] = m /\ l[2] = e /\ l[3] = f} |->
             (CHOOSE l \in d.leaves : l[1] = m /\ l[2] = e /\ l[3] = f)[4]]]]

NoFile == [written |-> FALSE, doc |-> JsonDump(EmptyMap)]

\* An output file left by an earlier run, not yet touched by this one.
PriorFile == [written |-> FALSE, doc |-> JsonDump(Single("2024-01", "py", Full(2)))]

---------------------------------------------------------------------------
(* merge_loc_histories.py                                                  *)

\* Mutant: the loop stops before the last field, "repos" is never added.
AddFields_SkipsRepos(acc, stats) ==
    IF \A k \in 1..Len(Fields) : Fields[k] \in DOMAIN acc /\ Fields[k] \in DOMAIN stats
    THEN [ok |-> TRUE,
          val |-> [f \in DOMAIN acc |->
                     IF f \in FieldSet \ {"repos"} THEN acc[f] + stats[f] ELSE acc[f]]]
    ELSE [ok |-> FALSE, val |-> acc]

\* Lines 33-34: merged[month][ext][field] += stats[field] for the six fields.
\* A field missing on either side raises KeyError.
AddFields(acc, stats) ==
    IF \A k \in 1..Len(Fields) : Fields[k] \in DOMAIN acc /\ Fields[k] \in DOMAIN stats
    THEN [ok |-> TRUE,
          val |-> [f \in DOMAIN acc |->
                     IF f \in FieldSet THEN acc[f] + stats[f] ELSE acc[f]]]
    ELSE [ok |-> FALSE, val |-> acc]

\* Mutant: the month's "total" entry is kept from the first file that has it.
MergeExt_FirstTotal(old, month_data, e) ==
    IF e \notin DOMAIN month_data THEN [ok |-> TRUE, val |-> old[e]]
    ELSE IF e \notin DOMAIN old THEN [ok |-> TRUE, val |-> month_data[e]]
    ELSE IF e = "total" THEN [ok |-> TRUE, val |-> old[e]]
    ELSE AddFields(old[e], month_data[e])

\* Lines 28-34 for one extension of one month.
MergeExt(old, month_data, e) ==
    IF e \notin DOMAIN month_data THEN [ok |-> TRUE, val |-> old[e]]
    ELSE IF e \notin DOMAIN old THEN [ok |-> TRUE, val |-> month_data[e]]
    ELSE AddFields(old[e], month_data[e])

\* Mutant: a repeated key overwrites the entry instead of adding to it.
MergeFile_Overwrite(acc, data) ==
    [ok  |-> TRUE,
     val |-> [m \in DOMAIN acc \cup DOMAIN data |->
                IF m \notin DOMAIN data THEN acc[m]
                ELSE IF m \notin DOMAIN acc THEN data[m]
                ELSE [e \in DOMAIN acc[m] \cup DOMAIN data[m] |->
                        IF e \in DOMAIN data[m] THEN data[m][e] ELSE acc[m][e]]]]

\* Mutant: the first occurrence of a key creates a zero entry and is not added.
MergeFile_ZeroInit(acc, data) ==
    [ok  |-> TRUE,
     val |-> [m \in DOMAIN acc \cup DOMAIN data |->
                IF m \notin DOMAIN data THEN acc[m]
                ELSE LET old == IF m \in DOMAIN acc THEN acc[m] ELSE EmptyMap
                     IN [e \in DOMAIN old \cup DOMAIN data[m] |->
                           IF e \notin DOMAIN data[m] THEN old[e]
                           ELSE IF e \notin DOMAIN old
                                THEN [f \in DOMAIN data[m][e] |-> 0]
                                ELSE AddFields(old[e], data[m][e]).val]]]

\* Lines 23-34: one file's data merged into the accumulator.  ok is FALSE when
\* some addition raises KeyError.
MergeFile(acc, data) ==
    LET old(m) == IF m \in DOMAIN acc THEN acc[m] ELSE EmptyMap
        cell(m, e) == MergeExt(old(m), data[m], e)
    IN [ok  |-> \A m \in DOMAIN data :
                  \A e \in DOMAIN old(m) \cup DOMAIN data[m] : cell(m, e).ok,
        val |-> [m \in DOMAIN acc \cup DOMAIN data |->
                   IF m \notin DOMAIN data THEN acc[m]
                   ELSE [e \in DOMAIN old(m) \cup DOMAIN data[m] |-> cell(m, e).val]]]

\* Lines 16-36 as a function of the loaded files: the fold of MergeFile.
RECURSIVE MergeFrom(_, _)
MergeFrom(acc, fs) ==
    IF fs = <<>> THEN [ok |-> TRUE, val |-> acc]
    ELSE LET r == MergeFile(acc, Head(fs))
         IN IF r.ok THEN MergeFrom(r.val, Tail(fs)) ELSE r

merge_loc_histories(fs) == MergeFrom(EmptyMap, fs)

\* Lines 39-46: the arguments are parsed (one file or more), the call starts.
MergeInit ==
    /\ mpc = "loop"
    /\ nfiles \in 1..MaxFiles
    /\ files = <<>>
    /\ merged = EmptyMap
    /\ outfile \in {NoFile, PriorFile}
    /\ pc = "idle"
    /\ exc = "none"
    /\ repos = 0
    /\ task = <<>>
    /\ semaphore = 0
    /\ res = <<>>
    /\ results = <<>>
    /\ repo_paths = <<>>
    /\ job = <<>>
    /\ collected = {}
    /\ repo_stats_list = <<>>
    /\ aggregated = EmptyMap
    /\ errlog = {}
    /\ exported = NoFile
    /\ cleanups = 0
    /\ mstep = "idle"
    /\ profile = NoProfile
    /\ patterns = <<>>
    /\ commit = NoCommit
    /\ verdict = FALSE

\* Mutant: the accumulator is saved to the output file after every input.
ReadAndMerge_SavesEachStep ==
    /\ mpc = "loop"
    /\ Len(files) < nfiles
    /\ \E data \in Docs :
         LET r == MergeFile(merged, data)
         IN /\ files' = Append(files, data)
            /\ outfile' = [written |-> TRUE, doc |-> JsonDump(r.val)]
            /\ IF r.ok
               THEN merged' = r.val /\ mpc' = "loop"
               ELSE merged' = EmptyMap /\ mpc' = "KeyError"
    /\ UNCHANGED nfiles
    /\ UNCHANGED <<scanVars, matchVars>>

\* Lines 18-34: open the next file, load it, merge it.  A KeyError leaves the
\* function; its local accumulator is gone.
ReadAndMerge ==
    /\ mpc = "loop"
    /\ Len(files) < nfiles
    /\ \E data \in Docs :
         LET r == MergeFile(merged, data)
         IN /\ files' = Append(files, data)
            /\ IF r.ok
               THEN merged' = r.val /\ mpc' = "loop"
               ELSE merged' = EmptyMap /\ mpc' = "KeyError"
    /\ UNCHANGED <<nfiles, outfile>>
    /\ UNCHANGED <<scanVars, matchVars>>

\* Line 36 / 46: the loop is over, merged is returned to main.
MergeReturn ==
    /\ mpc = "loop"
    /\ Len(files) = nfiles
    /\ mpc' = "returned"
    /\ UNCHANGED <<nfiles, files, merged, outfile>>
    /\ UNCHANGED <<scanVars, matchVars>>

\* Lines 49-50: the merged data is written to the output file.
WriteOutput ==
    /\ mpc = "returned"
    /\ outfile' = [written |-> TRUE, doc |-> JsonDump(merged)]
    /\ mpc' = "written"
    /\ UNCHANGED <<nfiles, files, merged>>
    /\ UNCHANGED <<scanVars, matchVars>>

MergeNext == ReadAndMerge \/ MergeReturn \/ WriteOutput

SpecMerge == MergeInit /\ [][MergeNext]_vars

---------------------------------------------------------------------------
(* repo_scan.py: CommitIdentityMatcher.  Strings are sequences of          *)
(* characters, a compiled pattern is a sequence of atoms.                  *)

\* Longest login of a profile.
MaxLogin == 2

\* The characters a login is made of: letters of both cases and the hyphen.
LoginChars == {"a", "B", "-"}

\* Characters that are not matched by \w.
NonWord == {"-", " ", "<", ">", "@", "."}

IsWord(c) == c \notin NonWord

\* re.IGNORECASE: characters are compared after case folding.
Fold(c) == IF c = "B" THEN "b" ELSE c

RECURSIVE StringsUpTo(_, _)
StringsUpTo(chars, n) ==
    IF n = 0 THEN {<<>>}
    ELSE LET shorter == StringsUpTo(chars, n - 1)
         IN shorter \cup {Append(s, c) : s \in shorter, c \in chars}

Logins == StringsUpTo(LoginChars, MaxLogin) \ {<<>>}

\* None or "" is the empty string: `github_user.name or ""`.
Names == {<<>>, <<"a", "l", " ", "b", "e", "e">>}

Emails == {<<>>, <<"a", "l", "@", "x">>}

Profiles == [login : Logins, name : Names, email : Emails]

NoreplyDomain ==
    <<"@", "u", "s", "e", "r", "s", ".", "n", "o", "r", "e", "p", "l", "y", ".",
      "g", "i", "t", "h", "u", "b", ".", "c", "o", "m">>

Lit(c) == [kind |-> "lit", ch |-> c]

WordBoundary == [kind |-> "b", ch |-> ""]

AnyChar == [kind |-> "dot", ch |-> ""]

AnyString == [kind |-> "dotstar", ch |-> ""]

\* re.escape(s), compiled: every character of s stands for itself.
Escape(s) == [k \in 1..Len(s) |-> Lit(s[k])]

\* re.compile of the text s as it is: "." is the wildcard, the other
\* characters of the model's alphabet stand for themselves.
Compile(s) == [k \in 1..Len(s) |-> IF s[k] = "." THEN AnyChar ELSE Lit(s[k])]

\* \b at position pos of text: exactly one of the characters before and after
\* the position is a word character.
AtBoundary(text, pos) ==
    (pos > 1 /\ IsWord(text[pos - 1])) # (pos <= Len(text) /\ IsWord(text[pos]))

\* The atoms of pat from the k-th on match text from position pos on.
RECURSIVE MatchAt(_, _, _, _)
MatchAt(pat, k, text, pos) ==
    IF k > Len(pat) THEN TRUE
    ELSE IF pat[k].kind = "b"
         THEN AtBoundary(text, pos) /\ MatchAt(pat, k + 1, text, pos)
    ELSE IF pat[k].kind = "dotstar"
         THEN \E q \in pos..(Len(text) + 1) : MatchAt(pat, k + 1, text, q)
    ELSE /\ pos <= Len(text)
         /\ (pat[k].kind = "dot" \/ Fold(text[pos]) = Fold(pat[k].ch))
         /\ MatchAt(pat, k + 1, text, pos + 1)

\* pattern.search(text)
Search(pat, text) == \E pos \in 1..(Len(text) + 1) : MatchAt(pat, 1, text, pos)

\* s.split('@')[0]
RECURSIVE BeforeAt(_)
BeforeAt(s) ==
    IF s = <<>> \/ Head(s) = "@" THEN <<>> ELSE <<Head(s)>> \o BeforeAt(Tail(s))

\* s.split(): the maximal runs of non-blank characters, in order.
RECURSIVE SplitFrom(_, _)
SplitFrom(s, word) ==
    IF s = <<>> THEN (IF word = <<>> THEN <<>> ELSE <<word>>)
    ELSE IF Head(s) = " "
         THEN (IF word = <<>> THEN <<>> ELSE <<word>>) \o SplitFrom(Tail(s), <<>>)
         ELSE SplitFrom(Tail(s), Append(word, Head(s)))

Split(s) == SplitFrom(s, <<>>)

\* Lines 67-74: \bname\b and one \bpart\b for each part longer than 2.
NamePatterns(name) ==
    LET parts == Split(name)
        long  == SelectSeq(parts, LAMBDA p : Len(p) > 2)
    IN IF name = <<>> THEN <<>>
       ELSE << <<WordBoundary>> \o Escape(name) \o <<WordBoundary>> >>
              \o [k \in 1..Len(long) |->
                    <<WordBoundary>> \o Escape(long[k]) \o <<WordBoundary>>]

\* Lines 54-58: the email and its local part followed by @.*
EmailPatterns(email) ==
    IF email = <<>> THEN <<>>
    ELSE << Escape(email),
            Escape(BeforeAt(email)) \o <<Lit("@"), AnyString>> >>

\* Line 64: rf"\b{re.escape(login)}\b"
LoginPattern(login) == <<WordBoundary>> \o Escape(login) \o <<WordBoundary>>

\* Line 61: f"{login}@users.noreply.github.com", the login not escaped.
NoreplyPattern(login) == Compile(login \o NoreplyDomain)

\* Lines 42-76
_build_patterns(github_user) ==
    EmailPatterns(github_user.email)
      \o <<NoreplyPattern(github_user.login), LoginPattern(github_user.login)>>
      \o NamePatterns(github_user.name)

\* Line 82: f"{commit_author} <{commit_email}>"
TextToCheck(commit_author, commit_email) ==
    commit_author \o <<" ", "<">> \o commit_email \o <<">">>

\* Lines 78-83
is_users_commit(pats, commit_author, commit_email) ==
    \E k \in 1..Len(pats) : Search(pats[k], TextToCheck(commit_author, commit_email))

\* The authors and emails of the commits looked at, for a user's login.
CommitAuthors(login) == {login, <<"z">>, <<"a", "l", " ", "b", "e", "e">>}

CommitEmails(login) == {<<>>, <<"z", "@", "x">>, login \o NoreplyDomain}

MatchInit ==
    /\ mstep = "start"
    /\ profile \in Profiles
    /\ patterns = <<>>
    /\ commit = NoCommit
    /\ verdict = FALSE
    /\ mpc = "idle"
    /\ nfiles = 0
    /\ files = <<>>
    /\ merged = EmptyMap
    /\ outfile = NoFile
    /\ pc = "idle"
    /\ exc = "none"
    /\ repos = 0
    /\ task = <<>>
    /\ semaphore = 0
    /\ res = <<>>
    /\ results = <<>>
    /\ repo_paths = <<>>
    /\ job = <<>>
    /\ collected = {}
    /\ repo_stats_list = <<>>
    /\ aggregated = EmptyMap
    /\ errlog = {}
    /\ exported = NoFile
    /\ cleanups = 0

\* Line 38: the matcher is constructed from the profile.
BuildPatterns ==
    /\ mstep = "start"
    /\ patterns' = _build_patterns(profile)
    /\ mstep' = "built"
    /\ UNCHANGED <<profile, commit, verdict>>
    /\ UNCHANGED <<scanVars, mergeVars>>

\* Lines 78-83: one commit is checked.
IsUsersCommit ==
    /\ mstep = "built"
    /\ \E author \in CommitAuthors(profile.login), email \in CommitEmails(profile.login) :
         /\ commit' = [author |-> author, email |-> email]
         /\ verdict' = is_users_commit(patterns, author, email)
    /\ mstep' = "checked"
    /\ UNCHANGED <<profile, patterns>>
    /\ UNCHANGED <<scanVars, mergeVars>>

MatchNext == BuildPatterns \/ IsUsersCommit

SpecMatch == MatchInit /\ [][MatchNext]_vars

---------------------------------------------------------------------------
(* repo_scan.py: candidates, clone tasks, analysis jobs.                   *)

\* Permits of the semaphore that admits the clone tasks.
SemaphoreLimit == 5

\* Upper limit of the worker processes of the pool.
MaxWorkers == 8

\* The candidates get_contributed_repos may return, in order: a prefix of this
\* list.  The first two are different repositories with the same name.
RepoCatalog ==
    << [owner |-> "me",  name |-> "app"],
       [owner |-> "org", name |-> "app"],
       [owner |-> "me",  name |-> "lib"],
       [owner |-> "me",  name |-> "cli"],
       [owner |-> "me",  name |-> "docs"],
       [owner |-> "org", name |-> "site"],
       [owner |-> "org", name |-> "infra"],
       [owner |-> "me",  name |-> "tools"] >>

\* Line 204: os.path.join(self.temp_dir, repo.name) of the i-th candidate.
RepoPath(i) == <<"temp_dir", RepoCatalog[i].name>>

\* What the analyzer returns for a repository: nothing, or one month with an
\* extension and the month's total.
RepoHistory(m, v) == [mm \in {m} |-> [e \in {"py", "total"} |-> Full(v)]]

AnalyzerOutputs ==
    {EmptyMap, RepoHistory("2024-01", 1), RepoHistory("2024-01", 2),
     RepoHistory("2024-02", 1)}

Running == {i \in 1..repos : task[i] = "running"}

Resolved(i) == task[i] \in {"ok", "failed"}

\* Lines 425-428: the tracker is constructed, main enters its try block.
Init ==
    /\ pc = "setup"
    /\ exc = "none"
    /\ repos = 0
    /\ task = <<>>
    /\ semaphore = 0
    /\ res = <<>>
    /\ results = <<>>
    /\ repo_paths = <<>>
    /\ job = <<>>
    /\ collected = {}
    /\ repo_stats_list = <<>>
    /\ aggregated = EmptyMap
    /\ errlog = {}
    /\ exported = NoFile
    /\ cleanups = 0
    /\ mpc = "idle"
    /\ nfiles = 0
    /\ files = <<>>
    /\ merged = EmptyMap
    /\ outfile = NoFile
    /\ mstep = "idle"
    /\ profile = NoProfile
    /\ patterns = <<>>
    /\ commit = NoCommit
    /\ verdict = FALSE

\* Line 429: tracker.setup() returns.
Setup ==
    /\ pc = "setup"
    /\ pc' = "list"
    /\ UNCHANGED <<exc, repos, task, semaphore, res, results, repo_paths, job,
                   collected, repo_stats_list, aggregated, errlog, exported, cleanups>>
    /\ UNCHANGED <<mergeVars, matchVars>>

\* Line 429: tracker.setup() raises (the request for the user fails).
SetupRaise ==
    /\ pc = "setup"
    /\ exc' = "Exception"
    /\ pc' = "except"
    /\ UNCHANGED <<repos, task, semaphore, res, results, repo_paths, job,
                   collected, repo_stats_list, aggregated, errlog, exported, cleanups>>
    /\ UNCHANGED <<mergeVars, matchVars>>

\* Lines 231-243: the candidates are listed.  With none, process_all_repos
\* returns {}; otherwise one clone task per candidate waits at the semaphore.
ListRepos ==
    /\ pc = "list"
    /\ \E k \in 0..MaxRepos :
         /\ repos' = k
         /\ IF k = 0
            THEN /\ errlog' = errlog \cup {"No repositories found to analyze."}
                 /\ pc' = "check"
                 /\ UNCHANGED <<task, semaphore>>
            ELSE /\ task' = [i \in 1..k |-> "waiting"]
                 /\ semaphore' = SemaphoreLimit
                 /\ pc' = "clone"
                 /\ UNCHANGED errlog
    /\ UNCHANGED <<exc, res, results, repo_paths, job, collected, repo_stats_list,
                   aggregated, exported, cleanups>>
    /\ UNCHANGED <<mergeVars, matchVars>>

\* Mutant: the clone coroutine is awaited without taking a permit.
Acquire_NoLimit(i) ==
    /\ pc = "clone"
    /\ task[i] = "waiting"
    /\ semaphore' = semaphore - 1
    /\ task' = [task EXCEPT ![i] = "running"]
    /\ UNCHANGED <<pc, exc, repos, res, results, repo_paths, job, collected,
                   repo_stats_list, aggregated, errlog, exported, cleanups>>
    /\ UNCHANGED <<mergeVars, matchVars>>

\* Lines 241-243: sem_clone takes a permit and starts clone_repo.
Acquire(i) ==
    /\ pc = "clone"
    /\ task[i] = "waiting"
    /\ semaphore > 0
    /\ semaphore' = semaphore - 1
    /\ task' = [task EXCEPT ![i] = "running"]
    /\ UNCHANGED <<pc, exc, repos, res, results, repo_paths, job, collected,
                   repo_stats_list, aggregated, errlog, exported, cleanups>>
    /\ UNCHANGED <<mergeVars, matchVars>>

\* clone_repo of candidate i returns (repo_path, ok); leaving the async-with
\* block gives the permit back and gather notes the finished task.
CloneReturns(i, ok) ==
    /\ pc = "clone"
    /\ task[i] = "running"
    /\ task' = [task EXCEPT ![i] = IF ok THEN "ok" ELSE "failed"]
    /\ semaphore' = semaphore + 1
    /\ res' = Append(res, i)
    /\ UNCHANGED <<pc, exc, repos, results, repo_paths, job, collected,
                   repo_stats_list, aggregated, errlog, exported, cleanups>>
    /\ UNCHANGED <<mergeVars, matchVars>>

\* Lines 216-222: git clone exits with code 0.
CloneExitZero(i) ==
    /\ Cardinality({j \in 1..repos : task[j] = "ok"}) < MaxCloned
    /\ CloneReturns(i, TRUE)

\* Mutant: a failed clone ends the tasks that still wait for a permit.
CloneExitNonzero_AbortsWaiting(i) ==
    /\ pc = "clone"
    /\ task[i] = "running"
    /\ task' = [j \in 1..repos |->
                  IF j = i \/ task[j] = "waiting" THEN "failed" ELSE task[j]]
    /\ semaphore' = semaphore + 1
    /\ res' = Append(res, i)
    /\ UNCHANGED <<pc, exc, repos, results, repo_paths, job, collected,
                   repo_stats_list, aggregated, errlog, exported, cleanups>>
    /\ UNCHANGED <<mergeVars, matchVars>>

\* Lines 216-220: git clone exits with a non-zero code.
CloneExitNonzero(i) == CloneReturns(i, FALSE)

\* Mutant: a clone that raises leaves sem_clone without giving its permit back.
CloneException_KeepsPermit(i) ==
    /\ pc = "clone"
    /\ task[i] = "running"
    /\ task' = [task EXCEPT ![i] = "failed"]
    /\ res' = Append(res, i)
    /\ UNCHANGED <<pc, exc, repos, semaphore, results, repo_paths, job, collected,
                   repo_stats_list, aggregated, errlog, exported, cleanups>>
    /\ UNCHANGED <<mergeVars, matchVars>>

\* Lines 224-226: starting or awaiting the subprocess raises.
CloneException(i) == CloneReturns(i, FALSE)

\* The value of the k-th slot of the list gather returns: tqdm's gather pairs
\* each result with the index of its awaitable and sorts the pairs.
SlotIndex(done, k) ==
    CHOOSE i \in {done[x] : x \in 1..Len(done)} :
        Cardinality({j \in {done[x] : x \in 1..Len(done)} : j < i}) = k - 1

\* Mutant: the results are returned in completion order.
GatherResults_Unsorted(done, t) ==
    [k \in 1..Len(done) |-> <<RepoPath(done[k]), t[done[k]] = "ok">>]

\* Line 244: the list of (path, success) that gather returns.
GatherResults(done, t) ==
    [k \in 1..Len(done) |->
       <<RepoPath(SlotIndex(done, k)), t[SlotIndex(done, k)] = "ok">>]

\* Mutant: gather returns as soon as one clone task has finished.
GatherReturn_FirstCompleted ==
    /\ pc = "clone"
    /\ \E i \in 1..repos : Resolved(i)
    /\ results' = GatherResults(res, task)
    /\ pc' = "cloned"
    /\ UNCHANGED <<exc, repos, task, semaphore, res, repo_paths, job, collected,
                   repo_stats_list, aggregated, errlog, exported, cleanups>>
    /\ UNCHANGED <<mergeVars, matchVars>>

\* Line 244: every clone task has finished, gather returns.
GatherReturn ==
    /\ pc = "clone"
    /\ \A i \in 1..repos : Resolved(i)
    /\ results' = GatherResults(res, task)
    /\ pc' = "cloned"
    /\ UNCHANGED <<exc, repos, task, semaphore, res, repo_paths, job, collected,
                   repo_stats_list, aggregated, errlog, exported, cleanups>>
    /\ UNCHANGED <<mergeVars, matchVars>>

\* The paths of the pairs of s whose success flag is set, in the order of s.
RECURSIVE SelectPaths(_)
SelectPaths(s) ==
    IF s = <<>> THEN <<>>
    ELSE IF Head(s)[2] THEN <<Head(s)[1]>> \o SelectPaths(Tail(s))
    ELSE SelectPaths(Tail(s))

\* Mutant: the success flag is ignored.
SuccessfulPaths_All(rs) == [k \in 1..Len(rs) |-> rs[k][1]]

\* Line 246: [path for path, success in results if success].
SuccessfulPaths(rs) == SelectPaths(rs)

\* Lines 246-252: without a successful clone process_all_repos returns {}.
\* (The completion order that gather had noted is of no use from here on.)
FilterPaths ==
    /\ pc = "cloned"
    /\ repo_paths' = SuccessfulPaths(results)
    /\ res' = <<>>
    /\ IF Len(SuccessfulPaths(results)) = 0
       THEN /\ errlog' = errlog \cup {"No repositories were successfully cloned"}
            /\ pc' = "check"
       ELSE /\ pc' = "submit"
            /\ UNCHANGED errlog
    /\ UNCHANGED <<exc, repos, task, semaphore, results, job, collected,
                   repo_stats_list, aggregated, exported, cleanups>>
    /\ UNCHANGED <<mergeVars, matchVars>>

\* An await of process_all_repos is cancelled (the run is interrupted): the
\* exception leaves process_all_repos, the list kept by gather is lost.
Cancelled ==
    /\ pc \in {"list", "clone"}
    /\ exc' = "CancelledError"
    /\ res' = <<>>
    /\ pc' = "finally"
    /\ UNCHANGED <<repos, task, semaphore, results, repo_paths, job, collected,
                   repo_stats_list, aggregated, errlog, exported, cleanups>>
    /\ UNCHANGED <<mergeVars, matchVars>>

Jobs == 1..Len(job)

AllJobsDone == \A j \in Jobs : job[j].st = "done"

\* Lines 257-260: one future per successful path is submitted to the pool.
SubmitJobs ==
    /\ pc = "submit"
    /\ job' = [j \in 1..Len(repo_paths) |->
                 [st |-> "queued", path |-> repo_paths[j],
                  failed |-> FALSE, stats |-> EmptyMap]]
    /\ pc' = "pool"
    /\ UNCHANGED <<exc, repos, task, semaphore, res, results, repo_paths, collected,
                   repo_stats_list, aggregated, errlog, exported, cleanups>>
    /\ UNCHANGED <<mergeVars, matchVars>>

\* Line 257: a worker process of the pool, of which there are at most
\* min(8, len(repo_paths)), takes a queued job.
StartJob(j) ==
    /\ pc = "pool"
    /\ job[j].st = "queued"
    /\ Cardinality({x \in Jobs : job[x].st = "running"}) <
         (IF MaxWorkers < Len(repo_paths) THEN MaxWorkers ELSE Len(repo_paths))
    /\ job' = [job EXCEPT ![j].st = "running"]
    /\ UNCHANGED <<pc, exc, repos, task, semaphore, res, results, repo_paths, collected,
                   repo_stats_list, aggregated, errlog, exported, cleanups>>
    /\ UNCHANGED <<mergeVars, matchVars>>

\* Lines 117-122: the analyzer returns the history of the repository.
AnalyzeOk(j) ==
    /\ pc = "pool"
    /\ job[j].st = "running"
    /\ \E h \in AnalyzerOutputs :
         job' = [job EXCEPT ![j].st = "done", ![j].stats = h]
    /\ UNCHANGED <<pc, exc, repos, task, semaphore, res, results, repo_paths, collected,
                   repo_stats_list, aggregated, errlog, exported, cleanups>>
    /\ UNCHANGED <<mergeVars, matchVars>>

\* Lines 123-125: the analyzer raises; the error is logged and {} returned.
AnalyzeFail(j) ==
    /\ pc = "pool"
    /\ job[j].st = "running"
    /\ job' = [job EXCEPT ![j].st = "done", ![j].failed = TRUE, ![j].stats = EmptyMap]
    /\ UNCHANGED <<pc, exc, repos, task, semaphore, res, results, repo_paths, collected,
                   repo_stats_list, aggregated, errlog, exported, cleanups>>
    /\ UNCHANGED <<mergeVars, matchVars>>

\* Lines 257-260: leaving the with-block of the executor waits for every job.
PoolShutdown ==
    /\ pc = "pool"
    /\ AllJobsDone
    /\ pc' = "collect"
    /\ UNCHANGED <<exc, repos, task, semaphore, res, results, repo_paths, job, collected,
                   repo_stats_list, aggregated, errlog, exported, cleanups>>
    /\ UNCHANGED <<mergeVars, matchVars>>

\* Mutant: an empty result ends the collection loop.
Collect_StopOnEmpty(j) ==
    /\ pc = "collect"
    /\ j \notin collected
    /\ IF job[j].stats # EmptyMap
       THEN /\ collected' = collected \cup {j}
            /\ repo_stats_list' = Append(repo_stats_list, job[j].stats)
       ELSE /\ collected' = Jobs
            /\ UNCHANGED repo_stats_list
    /\ UNCHANGED <<pc, exc, repos, task, semaphore, res, results, repo_paths, job,
                   aggregated, errlog, exported, cleanups>>
    /\ UNCHANGED <<mergeVars, matchVars>>

\* Lines 263-268: as_completed yields a finished future, in no particular
\* order; its result is kept when it is not empty.
Collect(j) ==
    /\ pc = "collect"
    /\ j \notin collected
    /\ collected' = collected \cup {j}
    /\ repo_stats_list' = IF job[j].stats # EmptyMap
                          THEN Append(repo_stats_list, job[j].stats)
                          ELSE repo_stats_list
    /\ UNCHANGED <<pc, exc, repos, task, semaphore, res, results, repo_paths, job,
                   aggregated, errlog, exported, cleanups>>
    /\ UNCHANGED <<mergeVars, matchVars>>

\* Line 264: future.result() raises (the pool broke: a worker process died).
\* The exception leaves process_all_repos and its locals are lost.
CollectRaise ==
    /\ pc = "collect"
    /\ collected # Jobs
    /\ exc' = "Exception"
    /\ collected' = {}
    /\ repo_stats_list' = <<>>
    /\ pc' = "except"
    /\ UNCHANGED <<repos, task, semaphore, res, results, repo_paths, job,
                   aggregated, errlog, exported, cleanups>>
    /\ UNCHANGED <<mergeVars, matchVars>>

\* Mutant: a new entry of the defaultdict starts with 'repos': 1.
ZeroMetrics_ReposOne == [f \in FieldSet |-> IF f = "repos" THEN 1 ELSE 0]

ZeroMetrics == [f \in FieldSet |-> 0]

\* Mutant: = instead of +=, the entry is replaced.
AddMetrics_Assign(base, metrics) ==
    [f \in FieldSet |-> IF f \in DOMAIN metrics THEN metrics[f] ELSE base[f]]

\* Line 281 for the metrics of one entry, on the entry of the defaultdict.
AddMetrics(base, metrics) ==
    [f \in FieldSet |-> base[f] + (IF f \in DOMAIN metrics THEN metrics[f] ELSE 0)]

\* Lines 278-281: the history of one repository added to the totals.  A month
\* is created in the defaultdict when one of its extensions is first touched.
AggregateOne(total, repo_stats) ==
    LET touched == {m \in DOMAIN repo_stats : DOMAIN repo_stats[m] # {}}
        old(m)  == IF m \in DOMAIN total THEN total[m] ELSE EmptyMap
        new(m)  == IF m \in DOMAIN repo_stats THEN repo_stats[m] ELSE EmptyMap
    IN [m \in DOMAIN total \cup touched |->
          [e \in DOMAIN old(m) \cup DOMAIN new(m) |->
             LET base == IF e \in DOMAIN old(m) THEN old(m)[e] ELSE ZeroMetrics
             IN IF e \in DOMAIN new(m) THEN AddMetrics(base, new(m)[e]) ELSE base]]

RECURSIVE AggregateFrom(_, _)
AggregateFrom(total, list) ==
    IF list = <<>> THEN total
    ELSE AggregateFrom(AggregateOne(total, Head(list)), Tail(list))

\* Lines 271-287: the histories of the list summed into one.
Aggregate(list) == AggregateFrom(EmptyMap, list)

\* Lines 270-289: every future was consumed; the statistics are aggregated
\* and returned to main.
AggregateStats ==
    /\ pc = "collect"
    /\ collected = Jobs
    /\ aggregated' = Aggregate(repo_stats_list)
    /\ pc' = "check"
    /\ UNCHANGED <<exc, repos, task, semaphore, res, results, repo_paths, job,
                   collected, repo_stats_list, errlog, exported, cleanups>>
    /\ UNCHANGED <<mergeVars, matchVars>>

\* Mutant: main also declines to export when some analysis failed.
CheckResults_AllOrNothing ==
    /\ pc = "check"
    /\ collected' = {}
    /\ repo_stats_list' = <<>>
    /\ IF aggregated = EmptyMap \/ \E j \in Jobs : job[j].failed
       THEN /\ errlog' = errlog \cup {"No data to export or display."}
            /\ pc' = "finally"
       ELSE /\ pc' = "export"
            /\ UNCHANGED errlog
    /\ UNCHANGED <<exc, repos, task, semaphore, res, results, repo_paths, job,
                   aggregated, exported, cleanups>>
    /\ UNCHANGED <<mergeVars, matchVars>>

\* Lines 434-436: without results main logs the fact and returns.  (The
\* locals of process_all_repos are gone.)
CheckResults ==
    /\ pc = "check"
    /\ collected' = {}
    /\ repo_stats_list' = <<>>
    /\ IF aggregated = EmptyMap
       THEN /\ errlog' = errlog \cup {"No data to export or display."}
            /\ pc' = "finally"
       ELSE /\ pc' = "export"
            /\ UNCHANGED errlog
    /\ UNCHANGED <<exc, repos, task, semaphore, res, results, repo_paths, job,
                   aggregated, exported, cleanups>>
    /\ UNCHANGED <<mergeVars, matchVars>>

\* Lines 439, 297-336: the results are written to the output directory.
ExportResults ==
    /\ pc = "export"
    /\ exported' = [written |-> TRUE, doc |-> JsonDump(aggregated)]
    /\ pc' = "format"
    /\ UNCHANGED <<exc, repos, task, semaphore, res, results, repo_paths, job, collected,
                   repo_stats_list, aggregated, errlog, cleanups>>
    /\ UNCHANGED <<mergeVars, matchVars>>

\* Line 439: export_results raises before a file is written.
ExportRaise ==
    /\ pc = "export"
    /\ exc' = "Exception"
    /\ pc' = "except"
    /\ UNCHANGED <<repos, task, semaphore, res, results, repo_paths, job, collected,
                   repo_stats_list, aggregated, errlog, exported, cleanups>>
    /\ UNCHANGED <<mergeVars, matchVars>>

\* Line 442: the formatted results are printed.
FormatResults ==
    /\ pc = "format"
    /\ pc' = "finally"
    /\ UNCHANGED <<exc, repos, task, semaphore, res, results, repo_paths, job, collected,
                   repo_stats_list, aggregated, errlog, exported, cleanups>>
    /\ UNCHANGED <<mergeVars, matchVars>>

\* Line 442: formatting or printing raises.
FormatRaise ==
    /\ pc = "format"
    /\ exc' = "Exception"
    /\ pc' = "except"
    /\ UNCHANGED <<repos, task, semaphore, res, results, repo_paths, job, collected,
                   repo_stats_list, aggregated, errlog, exported, cleanups>>
    /\ UNCHANGED <<mergeVars, matchVars>>

\* Mutant: the handler re-raises past a cleanup that is not in a finally block.
ExceptHandler_NoFinally ==
    /\ pc = "except"
    /\ errlog' = errlog \cup {"An error occurred"}
    /\ pc' = "done"
    /\ UNCHANGED <<exc, repos, task, semaphore, res, results, repo_paths, job, collected,
                   repo_stats_list, aggregated, exported, cleanups>>
    /\ UNCHANGED <<mergeVars, matchVars>>

\* Lines 444-446: the handler logs the exception and raises it again.
ExceptHandler ==
    /\ pc = "except"
    /\ errlog' = errlog \cup {"An error occurred"}
    /\ pc' = "finally"
    /\ UNCHANGED <<exc, repos, task, semaphore, res, results, repo_paths, job, collected,
                   repo_stats_list, aggregated, exported, cleanups>>
    /\ UNCHANGED <<mergeVars, matchVars>>

\* Lines 448-450, 291-295: the finally block calls tracker.cleanup(); main ends.
Finally ==
    /\ pc = "finally"
    /\ cleanups' = cleanups + 1
    /\ pc' = "done"
    /\ UNCHANGED <<exc, repos, task, semaphore, res, results, repo_paths, job, collected,
                   repo_stats_list, aggregated, errlog, exported>>
    /\ UNCHANGED <<mergeVars, matchVars>>

Next ==
    \/ Setup
    \/ SetupRaise
    \/ ListRepos
    \/ \E i \in 1..repos : Acquire(i)
    \/ \E i \in 1..repos : CloneExitZero(i)
    \/ \E i \in 1..repos : CloneExitNonzero(i)
    \/ \E i \in 1..repos : CloneException(i)
    \/ GatherReturn
    \/ FilterPaths
    \/ Cancelled
    \/ SubmitJobs
    \/ \E j \in Jobs : StartJob(j)
    \/ \E j \in Jobs : AnalyzeOk(j)
    \/ \E j \in Jobs : AnalyzeFail(j)
    \/ PoolShutdown
    \/ \E j \in Jobs : Collect(j)
    \/ CollectRaise
    \/ AggregateStats
    \/ CheckResults
    \/ ExportResults
    \/ ExportRaise
    \/ FormatResults
    \/ FormatRaise
    \/ ExceptHandler
    \/ Finally

Spec == Init /\ [][Next]_vars

\* The scheduling of the cloning stage: the event loop resumes a task that
\* waits for the semaphore once a permit is free, every clone subprocess
\* comes to an end, and gather is resumed once all its tasks have finished.
\* Nothing is assumed about the run being interrupted or not.
CloneFairness ==
    /\ WF_vars(\E i \in 1..repos : Acquire(i))
    /\ \A i \in 1..MaxRepos :
         WF_vars(i <= repos /\ (CloneExitZero(i) \/ CloneExitNonzero(i) \/ CloneException(i)))
    /\ WF_vars(GatherReturn)

SpecFair == Init /\ [][Next]_vars /\ CloneFairness

---------------------------------------------------------------------------
(* Properties of the merge utility.                                        *)

\* The bijections of 1..k onto itself.
Perms(k) == {p \in [1..k -> 1..k] : \A i, j \in 1..k : p[i] = p[j] => i = j}

Permute(s, p) == [i \in 1..Len(s) |-> s[p[i]]]

\* The call has returned its result to main, which is about to write it.
MergeReturned == mpc = "returned"

AllWellFormed(fs) == \A i \in 1..Len(fs) : WellFormed(fs[i])

\* A history written by the utility and loaded again as an input.
Reloaded(h) == JsonLoad(JsonDump(h))

\* Some (month, extension) key occurs in both histories.
SharedKey(g, h) == \E m \in DOMAIN g \cap DOMAIN h : DOMAIN g[m] \cap DOMAIN h[m] # {}

\* C2: for well-formed inputs, the mapping merge_loc_histories returns is the
\* one it returns for every permutation of the input sequence.
C2_PermutationInvariant ==
    (MergeReturned /\ AllWellFormed(files)) =>
        \A p \in Perms(Len(files)) :
            LET r == merge_loc_histories(Permute(files, p))
            IN r.ok /\ r.val = merged

\* Three well-formed inputs were merged, two of them with different values
\* under one key and the third under another month.
C2_Witness ==
    /\ MergeReturned
    /\ Len(files) = 3
    /\ AllWellFormed(files)
    /\ SharedKey(files[1], files[2])
    /\ files[1] # files[2]
    /\ DOMAIN files[3] # {}
    /\ DOMAIN files[3] \cap DOMAIN files[1] = {}

\* C3: for well-formed inputs, merging the whole sequence gives the mapping
\* obtained by merging any prefix (or any suffix) first, writing and reloading
\* that result, and merging it with the remaining inputs.
C3_Associative ==
    (MergeReturned /\ AllWellFormed(files)) =>
        \A k \in 1..Len(files) :
            LET n     == Len(files)
                left  == merge_loc_histories(SubSeq(files, 1, k))
                lres  == merge_loc_histories(
                             <<Reloaded(left.val)>> \o SubSeq(files, k + 1, n))
                right == merge_loc_histories(SubSeq(files, k, n))
                rres  == merge_loc_histories(
                             SubSeq(files, 1, k - 1) \o <<Reloaded(right.val)>>)
            IN /\ left.ok /\ lres.ok /\ lres.val = merged
               /\ right.ok /\ rres.ok /\ rres.val = merged

\* Three well-formed inputs that all hold the same key were merged.
C3_Witness ==
    /\ MergeReturned
    /\ Len(files) = 3
    /\ AllWellFormed(files)
    /\ SharedKey(files[1], files[2])
    /\ SharedKey(files[2], files[3])
    /\ files[2] # files[3]
    /\ SharedKey(merged, files[1])

\* C4: when some MetricSet of some input lacks one of the six fields, the call
\* fails and returns no result.
C4_MissingFieldFatal ==
    (\E i \in 1..Len(files) : ~WellFormed(files[i])) => ~MergeReturned

---------------------------------------------------------------------------
(* Properties of the pipeline.                                             *)

\* C1: at any moment at most five clone_repo calls have started and not yet
\* returned, however many candidates there are.
C1_CloneLimit ==
    /\ Cardinality(Running) <= SemaphoreLimit
    /\ semaphore >= 0

\* Five clones run while a sixth candidate waits for a permit.
C1_Witness ==
    /\ pc = "clone"
    /\ Cardinality(Running) = SemaphoreLimit
    /\ \E i \in 1..repos : task[i] = "waiting"

AllClonesFailed == repos > 0 /\ \A i \in 1..repos : task[i] = "failed"

\* C5: when every clone attempt failed, no analysis job is ever submitted, no
\* export file is written, and a run that gets past the cloning stage has
\* logged that no repository was cloned.
C5_NoCloneNoAnalysis ==
    AllClonesFailed =>
        /\ job = <<>>
        /\ ~exported.written
        /\ pc \notin {"submit", "pool", "collect", "export", "format"}
        /\ (pc \in {"check", "finally", "done"} /\ exc = "none") =>
               "No repositories were successfully cloned" \in errlog

\* A run with several candidates, all of whose clones failed, has ended.
C5_Witness ==
    /\ AllClonesFailed
    /\ repos >= 2
    /\ pc = "done"
    /\ exc = "none"

\* The cloning stage has finished: gather returned its list.
StageFinished ==
    /\ repos > 0
    /\ pc \notin {"setup", "list", "clone"}
    /\ exc # "CancelledError"

\* C6: a step in which a clone fails records that clone as failed and nothing
\* else: every sibling task stays as it is and the stage goes on; once the
\* stage has finished the failed clone has the outcome (path, False).
C6_FailureIsolated ==
    /\ [][\A i \in 1..repos :
            (task[i] = "running" /\ task'[i] = "failed") =>
                /\ \A j \in (1..repos) \ {i} : task'[j] = task[j]
                /\ res' = Append(res, i)
                /\ pc' = pc]_vars
    /\ [](StageFinished =>
            \A i \in 1..repos :
                task[i] = "failed" => results[i] = <<RepoPath(i), FALSE>>)

\* A clone failed and a sibling that finished after it was cloned.
C6_Witness ==
    /\ pc = "clone"
    /\ \E a, b \in 1..Len(res) :
         a < b /\ task[res[a]] = "failed" /\ task[res[b]] = "ok"

\* C7: the cloning stage finishes only when every clone task has resolved, and
\* its list has one outcome per candidate, the i-th being that of candidate i.
C7_OutcomePerCandidate ==
    StageFinished =>
        /\ \A i \in 1..repos : Resolved(i)
        /\ Len(results) = repos
        /\ \A i \in 1..repos : results[i] = <<RepoPath(i), task[i] = "ok">>

\* The stage finished although a later candidate finished before an earlier
\* one, with different outcomes.
C7_Witness ==
    /\ pc = "cloned"
    /\ repos >= 3
    /\ \E a, b \in 1..Len(res) :
         a < b /\ res[a] > res[b] /\ task[res[a]] # task[res[b]]

\* process_all_repos has aggregated the statistics of its jobs.
PostAggregation == job # <<>> /\ pc \in {"check", "export", "format"}

\* The sum of field f of the entries (m, e) of the jobs in S.
RECURSIVE SumField(_, _, _, _)
SumField(S, m, e, f) ==
    IF S = {} THEN 0
    ELSE LET j == CHOOSE x \in S : TRUE
             h == job[j].stats
         IN (IF m \in DOMAIN h /\ e \in DOMAIN h[m] THEN h[m][e][f] ELSE 0)
              + SumField(S \ {j}, m, e, f)

\* The field-by-field sum of the histories of the jobs in S.
SumOfJobs(S) ==
    [m \in UNION {DOMAIN job[j].stats : j \in S} |->
       [e \in UNION {DOMAIN job[j].stats[m] :
                        j \in {x \in S : m \in DOMAIN job[x].stats}} |->
          [f \in FieldSet |-> SumField(S, m, e, f)]]]

\* C8: a failed analysis contributes the empty history, and the aggregated
\* result is the sum of the histories of the jobs whose analysis succeeded.
C8_FailedAnalysisIsEmpty ==
    /\ \A j \in Jobs : job[j].failed => job[j].st = "done" /\ job[j].stats = EmptyMap
    /\ PostAggregation =>
           aggregated = SumOfJobs({j \in Jobs : ~job[j].failed})

\* The analysis of the first repository failed, that of a later one returned
\* a history, and the results were aggregated.
C8_Witness ==
    /\ PostAggregation
    /\ Len(job) >= 2
    /\ job[1].failed
    /\ \E j \in Jobs : ~job[j].failed /\ job[j].stats # EmptyMap
    /\ aggregated # EmptyMap

\* The non-empty histories of the jobs from index j on, in submission order.
RECURSIVE StatsFrom(_)
StatsFrom(j) ==
    IF j > Len(job) THEN <<>>
    ELSE IF job[j].stats # EmptyMap THEN <<job[j].stats>> \o StatsFrom(j + 1)
    ELSE StatsFrom(j + 1)

\* C9: the aggregated history is the one obtained from the results in
\* submission order and from every other order of collecting them.
C9_CollectionOrderIrrelevant ==
    /\ PostAggregation => aggregated = Aggregate(StatsFrom(1))
    /\ (pc = "check" /\ job # <<>>) =>
           \A p \in Perms(Len(repo_stats_list)) :
               aggregated = Aggregate(Permute(repo_stats_list, p))

\* Two different histories with a common key were collected in the reverse
\* of their submission order and aggregated.
C9_Witness ==
    /\ pc = "check"
    /\ Len(job) >= 2
    /\ Len(repo_stats_list) >= 2
    /\ repo_stats_list[1] = job[2].stats
    /\ repo_stats_list[2] = job[1].stats
    /\ job[1].stats # job[2].stats
    /\ SharedKey(job[1].stats, job[2].stats)

\* C10: main calls cleanup exactly once before it ends, on every path, and
\* never before its finally block.
C10_CleanupOnce ==
    /\ cleanups \in {0, 1}
    /\ pc = "done" => cleanups = 1
    /\ pc # "done" => cleanups = 0

\* main ended with an exception raised after results had been aggregated.
C10_Witness ==
    /\ pc = "done"
    /\ exc = "Exception"
    /\ aggregated # EmptyMap
    /\ cleanups = 1

\* The clone task of candidate i has started writing to its destination.
Started(i) == task[i] # "waiting"

\* C11: two clone tasks of one run, for different owner/name pairs, never
\* write to the same destination path.
C11_ExclusivePaths ==
    \A i, j \in 1..repos :
        (i # j /\ RepoCatalog[i] # RepoCatalog[j] /\ Started(i) /\ Started(j))
            => RepoPath(i) # RepoPath(j)

\* C12: once cleanup has removed the workspace, no clone task and no analysis
\* job is running.
C12_NoWorkAfterCleanup ==
    cleanups > 0 =>
        /\ \A i \in 1..repos : task[i] # "running"
        /\ \A j \in Jobs : job[j].st # "running"

\* The history h with every counter doubled, on the keys of h.
Doubled(h) ==
    [m \in DOMAIN h |-> [e \in DOMAIN h[m] |->
        [f \in DOMAIN h[m][e] |-> 2 * h[m][e][f]]]]

\* The input sequence is [H, H] for a well-formed history H.
SameFileTwice ==
    /\ Len(files) = 2
    /\ files[1] = files[2]
    /\ WellFormed(files[1])

\* C13: merging [H, H] for a well-formed H returns a history with exactly the
\* (month, extension) keys of H and each of the six fields twice its value in H.
C13_SelfMergeDoubles ==
    (MergeReturned /\ SameFileTwice) =>
        /\ DOMAIN merged = DOMAIN files[1]
        /\ \A m \in DOMAIN merged :
             /\ DOMAIN merged[m] = DOMAIN files[1][m]
             /\ \A e \in DOMAIN merged[m] : \A f \in FieldSet :
                  merged[m][e][f] = 2 * files[1][m][e][f]
        /\ merged = Doubled(files[1])

\* [H, H] has been merged for an H with three extensions in one month.
C13_Witness ==
    /\ MergeReturned
    /\ SameFileTwice
    /\ \E m \in DOMAIN files[1] : DOMAIN files[1][m] = Exts

\* The sum of field f over the extensions S of the month data md.
RECURSIVE SumExts(_, _, _)
SumExts(md, S, f) ==
    IF S = {} THEN 0
    ELSE LET e == CHOOSE x \in S : TRUE
         IN md[e][f] + SumExts(md, S \ {e}, f)

\* Every month of h has a "total" MetricSet that is the field-by-field sum of
\* the month's other MetricSets.
TotalsConsistent(h) ==
    /\ WellFormed(h)
    /\ \A m \in DOMAIN h :
         /\ "total" \in DOMAIN h[m]
         /\ \A f \in FieldSet :
              h[m]["total"][f] = SumExts(h[m], (DOMAIN h[m]) \ {"total"}, f)

AllTotalsConsistent(fs) == \A i \in 1..Len(fs) : TotalsConsistent(fs[i])

\* C14: if in every input history every month's "total" is the sum of the
\* month's other MetricSets, the merged history has that property too, both
\* as merge_loc_histories and as the aggregation loop of the scan sum it.
C14_TotalsPreserved ==
    (MergeReturned /\ AllTotalsConsistent(files)) =>
        /\ TotalsConsistent(merged)
        /\ TotalsConsistent(Aggregate(files))

\* Consistent inputs that share a month but not all extensions were merged.
C14_Witness ==
    /\ MergeReturned
    /\ AllTotalsConsistent(files)
    /\ Len(files) >= 2
    /\ \E m \in DOMAIN files[1] \cap DOMAIN files[2] :
         DOMAIN files[1][m] # DOMAIN files[2][m]
    /\ \E m \in DOMAIN merged : DOMAIN merged[m] = Exts

\* C15: when the merge fails on a missing field, the output file is neither
\* created nor modified; the file changes only in the step that writes the
\* complete result.
C15_NoPartialOutput ==
    /\ [](mpc = "KeyError" => (~outfile.written /\ outfile \in {NoFile, PriorFile}))
    /\ [][mpc' = "KeyError" => outfile' = outfile]_vars
    /\ [][outfile' # outfile => (mpc = "returned" /\ mpc' = "written")]_vars

\* The merge failed on its third file, after two files were merged, with an
\* output file of an earlier run in place.
C15_Witness ==
    /\ mpc = "KeyError"
    /\ Len(files) = 3
    /\ outfile = PriorFile

\* The jobs whose analysis returned a history.
Analyzed == {j \in Jobs : ~job[j].failed}

\* main has left its try block without an exception.
EndedNormally == pc \in {"finally", "done"} /\ exc = "none"

\* C16: when some repository was cloned and analyzed with a non-empty history
\* and the run ends without an exception, the report was exported and holds
\* exactly the sum of the histories of the successful analyses, whatever
\* number of clones and analyses failed.
C16_PartialReport ==
    (EndedNormally /\ \E j \in Analyzed : job[j].stats # EmptyMap) =>
        /\ exported.written
        /\ JsonLoad(exported.doc) = SumOfJobs(Analyzed)
        /\ "No data to export or display." \notin errlog

\* A run with a failed clone and a failed analysis has exported the history of
\* its one successful analysis.
C16_Witness ==
    /\ EndedNormally
    /\ pc = "done"
    /\ \E i \in 1..repos : task[i] = "failed"
    /\ \E j \in Jobs : job[j].failed
    /\ Cardinality({j \in Analyzed : job[j].stats # EmptyMap}) = 1
    /\ exported.written

\* The commit that was checked names the profile's login as its author.
AuthorIsLogin ==
    /\ mstep = "checked"
    /\ profile.login # <<>>
    /\ commit.author = profile.login

\* C17: for every profile with a non-empty login, whatever its name and
\* email, is_users_commit returns true for a commit whose author is the
\* login, for every commit email.
C17_SelfMatch == AuthorIsLogin => verdict

\* The login begins and ends with a word character.
WordEdged(login) == login # <<>> /\ IsWord(login[1]) /\ IsWord(login[Len(login)])

\* The part of C17 that holds: logins that begin and end with a word
\* character match themselves.
SelfMatch_WordEdged == (AuthorIsLogin /\ WordEdged(profile.login)) => verdict

\* The analysis stage has begun: the jobs are about to be submitted, or some
\* job was submitted.
AnalysisBegun == pc \in {"submit", "pool", "collect"} \/ job # <<>>

\* C18: the stages do not overlap: while an analysis job is submitted or
\* running, every clone task of the run has returned.
C18_StagesDoNotOverlap ==
    AnalysisBegun =>
        /\ \A i \in 1..repos : Resolved(i)
        /\ semaphore = SemaphoreLimit

\* An analysis job runs in a run of more than five candidates, some of whose
\* clones failed.
C18_Witness ==
    /\ repos > SemaphoreLimit
    /\ \E j \in Jobs : job[j].st = "running"
    /\ \E i \in 1..repos : task[i] = "failed"

\* The candidates whose clone returned success.
ClonedOk == {i \in 1..repos : task[i] = "ok"}

\* C19: every submitted analysis job names the path of a successful clone, no
\* path of a failed clone is analyzed, and each successful clone gets exactly
\* one job.
C19_OnlySuccessfulPaths ==
    job # <<>> =>
        /\ \A j \in Jobs : \E i \in ClonedOk : RepoPath(i) = job[j].path
        /\ \A j \in Jobs : \A i \in 1..repos :
             task[i] = "failed" => RepoPath(i) # job[j].path
        /\ Len(job) = Cardinality(ClonedOk)
        /\ \A i \in ClonedOk :
             Cardinality({j \in Jobs : job[j].path = RepoPath(i)})
               = Cardinality({k \in ClonedOk : RepoPath(k) = RepoPath(i)})

\* The run was interrupted while it listed or cloned.
Interrupted == exc = "CancelledError"

\* C20: with every clone subprocess coming to an end, every candidate's clone
\* task is admitted by the semaphore and the cloning stage completes, unless
\* the run is interrupted; a permit taken by a clone is given back when the
\* clone resolves, be it with success or failure.
C20_CloningCompletes ==
    /\ \A i \in 1..MaxRepos :
         (pc = "clone" /\ i <= repos /\ task[i] = "waiting")
             ~> (Interrupted \/ i > repos \/ task[i] # "waiting")
    /\ (pc = "clone") ~> (Interrupted \/ StageFinished)
    /\ [](task # <<>> => semaphore + Cardinality(Running) = SemaphoreLimit)

\* The cloning stage of a run with more candidates than permits, all of whose
\* clones failed, has completed with all permits free.
C20_Witness ==
    /\ repos > SemaphoreLimit
    /\ StageFinished
    /\ pc = "cloned"
    /\ AllClonesFailed
    /\ semaphore = SemaphoreLimit

\* Every month of every history of fs has at least one extension entry.
NoEmptyMonth(fs) ==
    \A i \in 1..Len(fs) : \A m \in DOMAIN fs[i] : DOMAIN fs[i][m] # {}

\* The history h without its months that have no extension entry.
WithoutEmptyMonths(h) == [m \in {x \in DOMAIN h : DOMAIN h[x] # {}} |-> h[m]]

===========================================================================
